---- MODULE Spec2Model ----
(***************************************************************************)
(* A model of the synapse-agent resource controllers:                      *)
(*   src/synapse/resources/files-plugin/files.py   (FilesController)       *)
(*   src/synapse/resources/groups-plugin/groups.py (GroupsController)      *)
(*                                                                         *)
(* Two threads share one FilesController: the request thread, which runs   *)
(* read/create/update/delete, and the monitor thread, which runs           *)
(* monitor().  monitor() is split at its two `with self._lock` blocks: no  *)
(* other code takes that lock, so each block is one step and the lock is   *)
(* free between them.  Spec runs every request as one step between the     *)
(* steps of the monitor; SpecPartial splits create() at its SystemModule   *)
(* calls; SpecSeq runs the request thread alone and records its history.   *)
(*                                                                         *)
(* A Python dict is a function from its keys to optional values: <<>> is   *)
(* a missing key (what dict.get returns as None), <<v>> a stored value.    *)
(* c_time is carried by the code beside mod_time and is compared nowhere;  *)
(* the model leaves it out.                                                *)
(***************************************************************************)
EXTENDS Integers, Sequences, FiniteSets, TLC

\* ------------------------------------------------------------------ bounds
\* Timestamps (datetime.now(), a file's mod_time) range over 0..MaxTime.
MaxTime == 1
Times == 0..MaxTime
\* SpecSeq follows the request thread through MaxCalls calls.
MaxCalls == 2

\* ------------------------------------------------------------ value domains
ResIds == {"f1", "f2"}
\* The order in which the persister enumerates its files collection.
ResOrder == <<"f1", "f2">>
Users == {"root", "bob"}
CurrentUser == "root"
OtherUser == "bob"
DefaultMode == "0644"
Contents == {"a", "b"}
EmptyContent == ""

None == <<>>
Some(v) == <<v>>
Val(o) == o[1]

Keys == {"present", "content", "md5", "owner", "group", "mode", "mod_time", "name"}
EmptyState == [k \in Keys |-> None]

\* A path of the live system: absent, a regular file or a directory.
AbsentFile == [kind |-> "absent", owner |-> "", group |-> "", mode |-> "",
               content |-> "", mod_time |-> 0]
InitialDir == [kind |-> "dir", owner |-> CurrentUser, group |-> CurrentUser,
               mode |-> DefaultMode, content |-> "", mod_time |-> 0]
InitialFile == [kind |-> "file", owner |-> OtherUser, group |-> CurrentUser,
                mode |-> "0600", content |-> "b", mod_time |-> 0]

\* ----------------------------------------------------- SystemModule (files)
exists(f) == f.kind # "absent"

is_file(f) == f.kind = "file"

\* The digest of a byte string: a tagged value, injective in the content.
md5_str(c) == <<"md5", c>>

\* The digest of a path's content.
md5(f) == md5_str(f.content)

create_file(t) == [kind |-> "file", owner |-> CurrentUser, group |-> CurrentUser,
                   mode |-> DefaultMode, content |-> EmptyContent, mod_time |-> t]

update_meta(f, owner, group, mode) ==
    [f EXCEPT !.owner = owner, !.group = group, !.mode = mode]

\* Writes only into a regular file (files.py:72).
set_content(f, c, t) ==
    IF is_file(f) THEN [f EXCEPT !.content = c, !.mod_time = t] ELSE f

\* files.py:64-65
create_if_absent(f, t) == IF exists(f) THEN f ELSE create_file(t)

\* create() that leaves the content write out.
written_unwritten(f, owner, group, mode, content, t) ==
    update_meta(create_if_absent(f, t), owner, group, mode)

\* files.py:64-73: the path after create()'s three mutations.
written(f, owner, group, mode, content, t) ==
    set_content(update_meta(create_if_absent(f, t), owner, group, mode), content, t)

\* md5(path) raises a resource error on anything but a regular file.
md5_raises(f, fault) == fault \/ ~is_file(f)

\* -------------------------------------------------- ResourcesController base
\* comply(**fields): the declared fields become the baseline record of the
\* resource; the monitor flag is kept beside the status snapshot.
comply(base, res, fields, monitor) ==
    [base EXCEPT ![res] = Some([status |-> fields, monitor |-> monitor])]

\* ---------------------------------------------------- FilesController.read
\* The SystemModule calls of read(), in the order the code makes them.
ReadCalls == <<"is_file", "get_content", "md5", "owner", "group", "mode", "mod_time">>

\* Position of a call in ReadCalls ("none" comes after all of them).
Pos(call) ==
    CASE call = "is_file" -> 1
      [] call = "get_content" -> 2
      [] call = "md5" -> 3
      [] call = "owner" -> 4
      [] call = "group" -> 5
      [] call = "mode" -> 6
      [] call = "mod_time" -> 7
      [] OTHER -> 8

Before(a, b) == Pos(a) < Pos(b)

\* Whether this read makes `call` at all.
Made(call, f, get_content, want_md5) ==
    CASE call = "is_file" -> TRUE
      [] call = "get_content" -> is_file(f) /\ get_content
      [] call = "md5" -> is_file(f) /\ want_md5
      [] OTHER -> is_file(f)

\* failAt names the SystemModule call that raises a resource error ("none":
\* no call raises).  The read raises when that call is one it makes.
read_raises(f, get_content, want_md5, failAt) ==
    failAt # "none" /\ Made(failAt, f, get_content, want_md5)

\* Whether `call` is made and returns before the read raises.
Returned(call, f, get_content, want_md5, failAt) ==
    /\ Made(call, f, get_content, want_md5)
    /\ \/ ~read_raises(f, get_content, want_md5, failAt)
       \/ Before(call, failAt)

\* self.status after read(): the keys the read assigns are overwritten in
\* place, every other key keeps what an earlier read left in it.
read(st, f, get_content, want_md5, failAt) ==
    LET got(call) == Returned(call, f, get_content, want_md5, failAt)
    IN  [k \in Keys |->
           CASE k = "present" -> IF got("is_file") THEN Some(is_file(f)) ELSE st[k]
             [] k = "content" -> IF got("get_content") THEN Some(f.content) ELSE st[k]
             [] k = "md5" -> IF got("md5") THEN Some(md5(f)) ELSE st[k]
             [] k = "owner" -> IF got("owner") THEN Some(f.owner) ELSE st[k]
             [] k = "group" -> IF got("group") THEN Some(f.group) ELSE st[k]
             [] k = "mode" -> IF got("mode") THEN Some(f.mode) ELSE st[k]
             [] k = "mod_time" -> IF got("mod_time") THEN Some(f.mod_time) ELSE st[k]
             [] OTHER -> st[k]]

\* ------------------------------------------- create(): attribute resolution
\* The resolution with the test of existence inverted.
_get_owner_inverted(f, attributes) ==
    IF attributes.owner # None THEN Val(attributes.owner)
    ELSE IF ~exists(f) THEN f.owner
    ELSE CurrentUser

_get_owner(f, attributes) ==
    IF attributes.owner # None THEN Val(attributes.owner)
    ELSE IF exists(f) THEN f.owner
    ELSE CurrentUser

_get_group(f, attributes) ==
    IF attributes.group # None THEN Val(attributes.group)
    ELSE IF exists(f) THEN f.group
    ELSE CurrentUser

\* oct(int(s, 8)) on the octal-digit strings the callers send.
ValidModes == {"600", "0600", "644"}
OctOf(s) == CASE s = "600" -> "0600"
              [] s = "0600" -> "0600"
              [] s = "644" -> "0644"

mode_raises(attributes) ==
    attributes.mode # None /\ Val(attributes.mode) \notin ValidModes

\* urllib2.urlopen(url).read(): one page is served, one host is down.
GoodUrl == "http://up"
BadUrl == "http://down"
fetched(url) == "a"
url_raises(url) == url = BadUrl

\* base64.b64decode: the encodings of the contents, and a string that is
\* none.  What comes of a string that does not decode is never used.
Malformed == "!"
b64_raises(s) == s \notin {"YQ==", "Yg=="}
b64decode(s) == CASE s = "YQ==" -> "a"
                  [] s = "Yg==" -> "b"
                  [] OTHER -> EmptyContent

\* files.py:200-221
raw_content(attributes) ==
    IF attributes.content_by_url # None THEN fetched(Val(attributes.content_by_url))
    ELSE attributes.content

\* A resolution that lets a string that is not base64 through.
content_raises_url_only(attributes) ==
    attributes.content_by_url # None /\ url_raises(Val(attributes.content_by_url))

content_raises(attributes) ==
    \/ attributes.content_by_url # None /\ url_raises(Val(attributes.content_by_url))
    \/ attributes.encoding = Some("base64") /\ b64_raises(raw_content(attributes))

_get_content(attributes) ==
    IF attributes.encoding = Some("base64") THEN b64decode(raw_content(attributes))
    ELSE raw_content(attributes)

\* files.py:48-51: whether the resolution of the attributes raises.
resolution_raises(attributes) == mode_raises(attributes) \/ content_raises(attributes)

_get_mode(f, attributes) ==
    IF attributes.mode # None THEN OctOf(Val(attributes.mode))
    ELSE IF exists(f) THEN f.mode
    ELSE DefaultMode

\* A declaration that carries the digest of what the path holds.
declared_live_digest(f, attributes, t) ==
    [k \in Keys |->
       CASE k = "present" -> Some(TRUE)
         [] k = "owner" -> Some(_get_owner(f, attributes))
         [] k = "group" -> Some(_get_group(f, attributes))
         [] k = "mode" -> Some(_get_mode(f, attributes))
         [] k = "mod_time" -> Some(t)
         [] k = "md5" -> Some(md5(f))
         [] OTHER -> None]

\* The fields create() hands to comply() (files.py:54-61).
declared(f, attributes, t) ==
    [k \in Keys |->
       CASE k = "present" -> Some(TRUE)
         [] k = "owner" -> Some(_get_owner(f, attributes))
         [] k = "group" -> Some(_get_group(f, attributes))
         [] k = "mode" -> Some(_get_mode(f, attributes))
         [] k = "mod_time" -> Some(t)
         [] k = "md5" -> Some(md5_str(_get_content(attributes)))
         [] OTHER -> None]

\* ------------------------------------------------------------------- inputs
\* The attributes a caller sends to create()/update().
Attributes == [owner : {None, Some(OtherUser)}, group : {None},
               mode : {None, Some("600"), Some("9")}, content : Contents,
               content_by_url : {None}, encoding : {None},
               get_content : BOOLEAN, monitor : {None}]
\* The part of them the monitor's comparisons can tell apart.
PlainAttributes == [owner : {None, Some(OtherUser)}, group : {None}, mode : {None},
                    content : Contents, content_by_url : {None}, encoding : {None},
                    get_content : {FALSE}, monitor : {None}]
NoAttributes == [owner |-> None, group |-> None, mode |-> None, content |-> "a",
                 content_by_url |-> None, encoding |-> None,
                 get_content |-> FALSE, monitor |-> None]
\* Content that is sent encoded or by reference.
EncodedAttributes ==
    {[NoAttributes EXCEPT !.content = c, !.encoding = Some("base64")] :
        c \in {"Yg==", Malformed}}
    \cup {[NoAttributes EXCEPT !.content_by_url = Some(u)] : u \in {GoodUrl, BadUrl}}
GroupNames == {"g1"}
Gids == {5}
\* A res_id that is empty or missing.
NoResId == ""
\* The names a rename may give, and the gids an update may set.
NewNames == {"g2"}
NewGids == {7}
\* The names the system may hold a group under, and what a caller may send
\* as the res_id of a group.
SystemGroups == GroupNames \cup NewNames
GroupResIds == SystemGroups \cup {NoResId}
\* The resources the requests of Spec are about, and those of SpecSeq.
Monitored == {"f1"}
Requested == {"f1", "f2"}
\* The SystemModule calls of read() that are made to raise.
ReadFaults == {"none", "is_file", "mod_time"}

\* The keys of a group's state, and a state that holds none of them.
GroupKeys == {"name", "present", "gid"}
NoFields == [k \in GroupKeys |-> None]

\* -------------------------------------------------------------------- state
VARIABLES
    fs,            \* the live system: path -> file
    baseline,      \* the persister's files collection: res_id -> optional record
    status,        \* FilesController.status, one dict shared by every call
    respIsStatus,  \* whether self.response is the self.status object
    req,           \* the request thread inside a create() that is split
    mon,           \* the monitor thread: its position and its locals
    grp,           \* the live system's groups: name -> optional gid
    gbase,         \* the persister's groups collection: name -> optional record
    gstatus,       \* GroupsController.status
    it,            \* history: what the monitor did for the record at hand
    hist,          \* history: the request thread's last call and its result
    gh             \* history: the last call of SpecGroups and its result

vars == <<fs, baseline, status, respIsStatus, req, mon, grp, gbase, gstatus, it,
          hist, gh>>
groupsVars == <<grp, gbase, gstatus, gh>>
filesVars == <<fs, baseline, status, respIsStatus, req, mon>>

\* self.response: a fresh controller holds an empty mapping; after the first
\* `self.response = self.read(...)` it is the status dict itself.
InitialResponse == EmptyState
Response == IF respIsStatus THEN status ELSE InitialResponse

IdleReq == [pc |-> "idle", res |-> "f1", attrs |-> NoAttributes,
            owner |-> "", group |-> "", mode |-> ""]
IdleMon == [pc |-> "idle", todo |-> <<>>, change_detected |-> FALSE,
            current_md5 |-> None]
NoIteration == [rec |-> "none", readFailed |-> FALSE, presDiff |-> FALSE,
                attrDiff |-> FALSE, md5Called |-> FALSE, md5Failed |-> FALSE,
                md5Equal |-> FALSE, partial |-> FALSE, persisted |-> FALSE,
                pub |-> 0, outcome |-> "none"]
NoHistory == [n |-> 0, op |-> "none", res |-> "f1", attrs |-> NoAttributes,
              want_md5 |-> FALSE, outcome |-> "none", repeat |-> FALSE,
              file |-> AbsentFile, base |-> EmptyState, ret |-> EmptyState,
              prev |-> EmptyState]

NoGroupHistory ==
    [n |-> 0, op |-> "none", res |-> "g1", new_name |-> None, gid |-> None,
     monitor |-> None, existed |-> FALSE, outcome |-> "none",
     mandatory |-> FALSE, touched |-> FALSE, mutated |-> FALSE,
     ret |-> NoFields, declared |-> NoFields, before |-> [g \in SystemGroups |-> None],
     persisted |-> <<>>, current |-> <<>>, compliant |-> FALSE,
     twin |-> [grp |-> [g \in SystemGroups |-> None],
               gbase |-> [g \in GroupResIds |-> None],
               outcome |-> "none", ret |-> NoFields]]

\* What the rest of a fresh agent holds, whatever the live system is.
Fresh ==
    /\ baseline = [r \in ResIds |-> None]
    /\ status = EmptyState
    /\ respIsStatus = FALSE
    /\ req = IdleReq
    /\ mon = IdleMon
    /\ grp = [g \in SystemGroups |-> None]
    /\ gbase = [g \in GroupResIds |-> None]
    /\ gstatus = NoFields
    /\ it = NoIteration
    /\ hist = NoHistory
    /\ gh = NoGroupHistory

Init ==
    /\ fs = [r \in ResIds |-> IF r = "f2" THEN InitialDir ELSE AbsentFile]
    /\ Fresh

\* The agent starts on a live system that holds nothing, a directory or a
\* file at the first path, and a directory at the second.
InitSeq ==
    /\ fs \in [ResIds -> {AbsentFile, InitialDir, InitialFile}]
    /\ fs["f2"] = InitialDir
    /\ Fresh

\* ----------------------------------------------- FilesController.create/update
\* update() is create() (files.py:82-85).
\* files.py:46-80 in one step.  t_decl is datetime.now() at files.py:57, t_file
\* the time of the writes, failAt the call of the final read that raises.
FilesCreate(res, attributes, t_decl, t_file, failAt) ==
    /\ req.pc = "idle"
    /\ IF resolution_raises(attributes)
       THEN UNCHANGED <<fs, baseline, status>>
       ELSE LET f == written(fs[res], _get_owner(fs[res], attributes),
                             _get_group(fs[res], attributes),
                             _get_mode(fs[res], attributes),
                             _get_content(attributes), t_file)
            IN  /\ baseline' = comply(baseline, res,
                                      declared(fs[res], attributes, t_decl),
                                      attributes.monitor)
                /\ fs' = [fs EXCEPT ![res] = f]
                /\ status' = read(status, f, attributes.get_content, TRUE, failAt)
    /\ UNCHANGED <<respIsStatus, req, mon>>

\* Whether that create() returns a state rather than raising.
create_returns(f, attributes, failAt) ==
    /\ ~resolution_raises(attributes)
    /\ ~read_raises(create_if_absent(f, 0), attributes.get_content, TRUE, failAt)

\* The same handler, one SystemModule call at a time.
\* files.py:46-61: resolve the attributes, declare the baseline.
FilesCreateDeclare(res, attributes, t) ==
    /\ req.pc = "idle"
    /\ ~resolution_raises(attributes)
    /\ baseline' = comply(baseline, res, declared(fs[res], attributes, t),
                          attributes.monitor)
    /\ req' = [pc |-> "create_file", res |-> res, attrs |-> attributes,
               owner |-> _get_owner(fs[res], attributes),
               group |-> _get_group(fs[res], attributes),
               mode |-> _get_mode(fs[res], attributes)]
    /\ UNCHANGED <<fs, status, respIsStatus, mon>>

\* files.py:64-65
FilesCreateFile(t) ==
    /\ req.pc = "create_file"
    /\ fs' = [fs EXCEPT ![req.res] = create_if_absent(@, t)]
    /\ req' = [req EXCEPT !.pc = "update_meta"]
    /\ UNCHANGED <<baseline, status, respIsStatus, mon>>

\* files.py:70
FilesUpdateMeta ==
    /\ req.pc = "update_meta"
    /\ fs' = [fs EXCEPT ![req.res] = update_meta(@, req.owner, req.group, req.mode)]
    /\ req' = [req EXCEPT !.pc = "set_content"]
    /\ UNCHANGED <<baseline, status, respIsStatus, mon>>

\* files.py:73
FilesSetContent(t) ==
    /\ req.pc = "set_content"
    /\ fs' = [fs EXCEPT ![req.res] = set_content(@, _get_content(req.attrs), t)]
    /\ req' = [req EXCEPT !.pc = "read"]
    /\ UNCHANGED <<baseline, status, respIsStatus, mon>>

\* files.py:75-80: the final live read, whose result create() returns.
FilesCreateRead(failAt) ==
    /\ req.pc = "read"
    /\ status' = read(status, fs[req.res], req.attrs.get_content, TRUE, failAt)
    /\ req' = IdleReq
    /\ UNCHANGED <<fs, baseline, respIsStatus, mon>>

\* ------------------------------------------------------ FilesController.read
\* A read request of the caller (files.py:17-35).
FilesRead(res, get_content, want_md5, failAt) ==
    /\ req.pc = "idle"
    /\ status' = read(status, fs[res], get_content, want_md5, failAt)
    /\ UNCHANGED <<fs, baseline, respIsStatus, req, mon>>

\* ---------------------------------------------------- FilesController.delete
\* files.py:92: the snapshot read before the deletion request.
previous_state(st, f, failAt) == read(st, f, FALSE, FALSE, failAt)

\* The path after module.delete (files.py:93); took_effect: whether the
\* SystemModule removed it.
deleted(f, took_effect) == IF took_effect THEN AbsentFile ELSE f

\* files.py:87-99 in one step.
FilesDelete(res, took_effect, failAt) ==
    LET raised == read_raises(fs[res], FALSE, FALSE, failAt)
        after == IF raised THEN fs[res] ELSE deleted(fs[res], took_effect)
        confirmed == ~raised /\ ~exists(after)
    IN  /\ req.pc = "idle"
        /\ baseline' = comply(baseline, res, EmptyState, Some(FALSE))
        /\ fs' = [fs EXCEPT ![res] = after]
        /\ status' = IF confirmed
                     THEN [previous_state(status, fs[res], failAt)
                             EXCEPT !["present"] = Some(FALSE)]
                     ELSE previous_state(status, fs[res], failAt)
        /\ respIsStatus' = IF confirmed THEN TRUE ELSE respIsStatus
        /\ UNCHANGED <<req, mon>>

\* ------------------------------------------------------- the live system
\* Drift: the file changes behind the agent's back (another owner, a touch,
\* other content, a removal).
SystemDrift(res, change, c, t) ==
    /\ is_file(fs[res])
    /\ fs' = [fs EXCEPT ![res] =
                CASE change = "chown" ->
                       [@ EXCEPT !.owner = IF @ = CurrentUser THEN OtherUser
                                           ELSE CurrentUser]
                  [] change = "touch" -> [@ EXCEPT !.mod_time = t]
                  [] change = "write" -> [@ EXCEPT !.content = c, !.mod_time = t]
                  [] OTHER -> AbsentFile]
    /\ fs' # fs
    /\ UNCHANGED <<baseline, status, respIsStatus, req, mon>>

\* --------------------------------------------------- FilesController.monitor
\* A comparison that sees a resource vanish and never sees one appear.
presence_differs_vanished(wanted, current) ==
    wanted["present"] = Some(TRUE) /\ current["present"] # Some(TRUE)

\* files.py:127
presence_differs(wanted, current) == wanted["present"] # current["present"]

\* files.py:132-135
attrs_changed(wanted, current) ==
    \E attr \in {"name", "owner", "group", "mode"} : wanted[attr] # current[attr]

\* files.py:138
mod_time_changed(wanted, current) == wanted["mod_time"] # current["mod_time"]

\* files.py:145
digest_differs(current_md5, wanted) == current_md5 # wanted["md5"]

\* A persist of the whole live state in place of the record's.
healed_whole(record, current) == [record EXCEPT !.status = current]

\* A persist that leaves the recorded mod_time as it was.
healed_stale(record, current) == record

\* files.py:148-150: the record with the live mod_time written through.
healed(record, current) ==
    [record EXCEPT !.status["mod_time"] = current["mod_time"]]

\* files.py:105-111: fetch the collection; without one the pass is a no-op.
MonStart ==
    /\ mon.pc = "idle"
    /\ IF \A r \in ResIds : baseline[r] = None
       THEN /\ mon' = IdleMon
            /\ it' = [NoIteration EXCEPT !.outcome = "noop"]
       ELSE /\ mon' = [IdleMon EXCEPT
                         !.pc = "read",
                         !.todo = SelectSeq(ResOrder, LAMBDA r : baseline[r] # None)]
            /\ it' = NoIteration
    /\ UNCHANGED <<fs, baseline, status, respIsStatus, req, hist, groupsVars>>

\* The loop moves to its next record, or the pass ends normally.
Advance(m) ==
    IF Tail(m.todo) = <<>>
    THEN IdleMon
    ELSE [m EXCEPT !.pc = "read", !.todo = Tail(m.todo), !.change_detected = FALSE]

Ended(m, seen) ==
    [seen EXCEPT !.outcome = IF Tail(m.todo) = <<>> THEN "done" ELSE "next"]

\* files.py:113-138 and, when mod_time is unchanged, 153-154: the live read
\* under the lock, then the comparisons of the flags.
MonRead(failAt) ==
    /\ mon.pc = "read"
    /\ LET r == Head(mon.todo)
           raised == read_raises(fs[r], FALSE, FALSE, failAt)
           st1 == read(status, fs[r], FALSE, FALSE, failAt)
           isst == IF raised THEN respIsStatus ELSE TRUE
           current == IF isst THEN st1 ELSE InitialResponse
           wanted == Val(baseline[r]).status
           seen == [NoIteration EXCEPT
                      !.rec = r, !.readFailed = raised,
                      !.presDiff = wanted["present"] # current["present"],
                      !.attrDiff = \E a \in {"owner", "group", "mode"} :
                                       wanted[a] # current[a]]
       IN  /\ status' = st1
           /\ respIsStatus' = isst
           /\ IF presence_differs(wanted, current)
              THEN /\ it' = Ended(mon, [seen EXCEPT !.pub = 1])
                   /\ mon' = Advance(mon)
              ELSE IF mod_time_changed(wanted, current)
              THEN /\ it' = seen
                   /\ mon' = [mon EXCEPT !.pc = "md5",
                                !.change_detected = attrs_changed(wanted, current)]
              ELSE /\ it' = Ended(mon, [seen EXCEPT
                               !.pub = IF attrs_changed(wanted, current) THEN 1 ELSE 0])
                   /\ mon' = Advance(mon)
    /\ UNCHANGED <<fs, baseline, req, hist, groupsVars>>

\* files.py:139-154: the digest under the lock, the self-heal, the publish.
\* A digest that raises leaves current_md5 as it was: unbound in the first
\* such iteration of a pass (the pass dies of UnboundLocalError), the
\* digest of an earlier record afterwards.  current['mod_time'] on a state
\* without that key ends the pass with KeyError.
MonDigest(fault) ==
    /\ mon.pc = "md5"
    /\ LET r == Head(mon.todo)
           wanted == Val(baseline[r]).status
           current == Response
           raised == md5_raises(fs[r], fault)
           current_md5 == IF raised THEN mon.current_md5 ELSE Some(md5(fs[r]))
           seen == [it EXCEPT !.md5Called = TRUE, !.md5Failed = raised,
                              !.md5Equal = ~raised /\ Some(md5(fs[r])) = wanted["md5"],
                              !.partial = req.pc # "idle" /\ req.pc # "read"
                                          /\ req.res = r]
       IN  IF current_md5 = None
           THEN /\ mon' = IdleMon
                /\ it' = [seen EXCEPT !.outcome = "aborted"]
                /\ UNCHANGED baseline
           ELSE IF digest_differs(current_md5, wanted)
           THEN /\ mon' = Advance([mon EXCEPT !.current_md5 = current_md5])
                /\ it' = Ended(mon, [seen EXCEPT !.pub = 1])
                /\ UNCHANGED baseline
           ELSE IF current["mod_time"] = None
           THEN /\ mon' = IdleMon
                /\ it' = [seen EXCEPT !.outcome = "aborted"]
                /\ UNCHANGED baseline
           ELSE /\ baseline' = [baseline EXCEPT ![r] = Some(healed(Val(@), current))]
                /\ mon' = Advance([mon EXCEPT !.current_md5 = current_md5])
                /\ it' = Ended(mon, [seen EXCEPT
                                       !.persisted = TRUE,
                                       !.pub = IF mon.change_detected THEN 1 ELSE 0])
    /\ UNCHANGED <<fs, status, respIsStatus, req, hist, groupsVars>>

\* ---------------------------------------------------- SystemModule (groups)
\* module.exists(name) for a group.
group_exists(g, name) == name \in DOMAIN g /\ g[name] # None

\* group_add raises on an empty name and on a group that exists.
group_add_raises(g, name) == name \notin DOMAIN g \/ g[name] # None

\* A group added without a gid gets one from the system.
group_add(g, name, gid, fresh) ==
    IF group_add_raises(g, name) THEN g
    ELSE [g EXCEPT ![name] = IF gid = None THEN Some(fresh) ELSE gid]

\* get_group_infos raises ResourceNotFound on a name no group has.
infos_raises(g, name) == ~group_exists(g, name)

get_group_infos(g, name) ==
    [k \in GroupKeys |->
       CASE k = "name" -> Some(name)
         [] k = "present" -> Some(TRUE)
         [] OTHER -> g[name]]

\* An optional name as the string the SystemModule receives.
NameOf(o) == IF o = None THEN NoResId ELSE Val(o)

\* group_mod(name, new_name, gid): a rename to a name that is taken raises.
group_mod_raises(g, name, new_name) ==
    new_name # None /\ Val(new_name) # name /\ group_exists(g, Val(new_name))

group_mod(g, name, new_name, gid) ==
    LET target == IF new_name = None THEN name ELSE Val(new_name)
    IN  IF group_mod_raises(g, name, new_name) THEN g
        ELSE [x \in DOMAIN g |->
                IF x = target THEN (IF gid = None THEN g[name] ELSE gid)
                ELSE IF x = name THEN None
                ELSE g[x]]

\* ------------------------------------------------------- GroupsController
\* groups.py:16: comply(name=res_id, present=True, gid=gid)
group_declared(name, gid) ==
    [k \in GroupKeys |->
       CASE k = "name" -> Some(name)
         [] k = "present" -> Some(TRUE)
         [] OTHER -> gid]

\* groups.py:14-19.  group_add raises when the group exists; a group added
\* without a gid gets one from the system.
GroupsCreate(res, gid, fresh) ==
    /\ gbase' = comply(gbase, res, group_declared(res, gid), None)
    /\ grp' = group_add(grp, res, gid, fresh)
    /\ UNCHANGED filesVars

\* What create() returns (groups.py:19), or the error it ends with.
create_outcome(g, res) ==
    IF group_add_raises(g, res) THEN "error" ELSE "ok"

create_result(g, res, gid, fresh) ==
    IF group_add_raises(g, res) THEN NoFields
    ELSE get_group_infos(group_add(g, res, gid, fresh), res)

\* groups.py:40-43.  group_del raises on a group that is not there, and then
\* nothing is declared.
GroupsDelete(res) ==
    /\ grp' = IF group_exists(grp, res) THEN [grp EXCEPT ![res] = None] ELSE grp
    /\ gbase' = IF ~group_exists(grp, res) THEN gbase
                ELSE comply(gbase, res, NoFields, Some(FALSE))
    /\ UNCHANGED filesVars

\* groups.py:11-12
GroupsRead(res) ==
    /\ UNCHANGED <<grp, gbase, gstatus>>
    /\ UNCHANGED filesVars

\* groups.py:26: comply(name=new_name, present=True, gid=gid, monitor=monitor)
update_declared(new_name, gid) ==
    [k \in GroupKeys |->
       CASE k = "name" -> new_name
         [] k = "present" -> Some(TRUE)
         [] OTHER -> gid]

\* groups.py:32: the group read back after group_mod.
read_back(new_name) == NameOf(new_name)

\* groups.py:21-38
GroupsUpdate(res, new_name, gid, monitor, fresh) ==
    LET declared_first == comply(gbase, res, update_declared(new_name, gid), monitor)
        modified == group_mod(grp, res, new_name, gid)
    IN  /\ IF group_exists(grp, res)
           THEN /\ gbase' = declared_first
                /\ IF new_name # None \/ gid # None
                   THEN /\ grp' = modified
                        /\ gstatus' =
                             IF \/ group_mod_raises(grp, res, new_name)
                                \/ infos_raises(modified, read_back(new_name))
                             THEN gstatus
                             ELSE get_group_infos(modified, read_back(new_name))
                   ELSE /\ grp' = grp
                        /\ gstatus' = get_group_infos(grp, res)
           ELSE /\ gbase' = comply(declared_first, res, group_declared(res, gid), None)
                /\ grp' = group_add(grp, res, gid, fresh)
                /\ gstatus' = gstatus
        /\ UNCHANGED filesVars

\* Whether that update() returns rather than raising.
update_outcome(g, res, new_name, gid) ==
    IF group_exists(g, res)
    THEN IF new_name # None \/ gid # None
         THEN IF \/ group_mod_raises(g, res, new_name)
                 \/ infos_raises(group_mod(g, res, new_name, gid), read_back(new_name))
              THEN "error" ELSE "ok"
         ELSE "ok"
    ELSE create_outcome(g, res)

\* groups.py:45-53.  A state handed to monitor() is a mapping of some keys to
\* values; dict.get answers PyNone for a key the mapping lacks.
PyNone == "None"
get(d, key) == IF key \in DOMAIN d THEN d[key] ELSE PyNone

\* A loop over the keys of the current state instead.
monitor_current_keys(persisted_state, current_state) ==
    \A key \in DOMAIN current_state :
        ~(get(current_state, key) # get(persisted_state, key))

monitor(persisted_state, current_state) ==
    \A key \in DOMAIN persisted_state :
        ~(get(current_state, key) # get(persisted_state, key))

\* ------------------------------------------------------------ specification
\* A step of the request thread or of the live system: the history of the
\* monitor's iteration is kept while the iteration is under way.
Forget ==
    /\ it' = IF mon.pc = "md5" THEN it ELSE NoIteration
    /\ UNCHANGED <<hist, groupsVars>>

Next ==
    \/ \E res \in Monitored, attributes \in PlainAttributes, t_decl \in Times,
          t_file \in Times, failAt \in ReadFaults :
          FilesCreate(res, attributes, t_decl, t_file, failAt) /\ Forget
    \/ \E res \in Monitored, took_effect \in BOOLEAN, failAt \in ReadFaults :
          FilesDelete(res, took_effect, failAt) /\ Forget
    \/ \E res \in Monitored, change \in {"chown", "touch", "write", "remove"},
          c \in Contents, t \in Times : SystemDrift(res, change, c, t) /\ Forget
    \/ MonStart
    \/ \E failAt \in ReadFaults : MonRead(failAt)
    \/ \E fault \in BOOLEAN : MonDigest(fault)

Spec == Init /\ [][Next]_vars

\* ------------------------------------------- the request thread on its own
\* A state, and a file, without their timestamps.
NoTimes(st) == [st EXCEPT !["mod_time"] = None]
FileNoTimes(f) == [f EXCEPT !.mod_time = 0]

\* The history of a create(): its outcome, whether it repeats the call
\* before it, and what the first of the two calls left behind.
after_create(res, attributes, failAt) ==
    LET ok == create_returns(fs[res], attributes, failAt)
        again == /\ hist.op = "create" /\ hist.outcome = "ok"
                 /\ hist.res = res /\ hist.attrs = attributes
    IN  [NoHistory EXCEPT
           !.n = hist.n + 1,
           !.op = "create", !.res = res, !.attrs = attributes, !.want_md5 = TRUE,
           !.outcome = IF ok THEN "ok"
                       ELSE IF resolution_raises(attributes) THEN "invalid"
                       ELSE "error",
           !.repeat = ok /\ again,
           !.file = IF ~ok THEN AbsentFile
                    ELSE IF again THEN hist.file ELSE FileNoTimes(fs'[res]),
           !.base = IF ~ok THEN EmptyState
                    ELSE IF again THEN hist.base
                    ELSE NoTimes(Val(baseline'[res]).status),
           !.ret = IF ok THEN status' ELSE EmptyState]

after_read(res, get_content, want_md5, failAt) ==
    LET ok == ~read_raises(fs[res], get_content, want_md5, failAt)
        follows == hist.op = "create" /\ hist.outcome = "ok" /\ hist.res = res
    IN  [NoHistory EXCEPT
           !.n = hist.n + 1,
           !.op = "read", !.res = res,
           !.attrs = [NoAttributes EXCEPT
                        !.get_content = get_content,
                        !.content = IF follows THEN _get_content(hist.attrs) ELSE "a"],
           !.want_md5 = want_md5,
           !.outcome = IF ok THEN "ok" ELSE "error",
           !.repeat = ok /\ follows,
           !.ret = IF ok THEN status' ELSE EmptyState]

after_delete(res, failAt) ==
    LET ok == ~read_raises(fs[res], FALSE, FALSE, failAt)
    IN  [NoHistory EXCEPT
           !.n = hist.n + 1,
           !.op = "delete", !.res = res,
           !.outcome = IF ok THEN "ok" ELSE "error",
           !.prev = IF ok THEN previous_state(status, fs[res], failAt) ELSE EmptyState,
           !.ret = IF ok THEN Response' ELSE EmptyState]

after_group(op, res, declared_it) ==
    [NoHistory EXCEPT !.n = hist.n + 1, !.op = op, !.res = res,
                      !.outcome = IF declared_it THEN "ok" ELSE "error"]

NextSeq ==
    \/ \E res \in Requested, attributes \in Attributes \cup EncodedAttributes,
          t_decl \in Times,
          t_file \in Times, failAt \in ReadFaults :
          /\ hist.n < MaxCalls
          /\ FilesCreate(res, attributes, t_decl, t_file, failAt)
          /\ hist' = after_create(res, attributes, failAt)
          /\ UNCHANGED <<it, groupsVars>>
    \/ \E res \in Requested, get_content \in BOOLEAN, want_md5 \in BOOLEAN,
          failAt \in ReadFaults :
          /\ hist.n < MaxCalls
          /\ FilesRead(res, get_content, want_md5, failAt)
          /\ hist' = after_read(res, get_content, want_md5, failAt)
          /\ UNCHANGED <<it, groupsVars>>
    \/ \E res \in Requested, took_effect \in BOOLEAN, failAt \in ReadFaults :
          /\ hist.n < MaxCalls
          /\ FilesDelete(res, took_effect, failAt)
          /\ hist' = after_delete(res, failAt)
          /\ UNCHANGED <<it, groupsVars>>
    \/ \E res \in GroupNames, gid \in {None} \cup {Some(g) : g \in Gids}, fresh \in Gids :
          /\ hist.n < MaxCalls
          /\ GroupsCreate(res, gid, fresh)
          /\ hist' = after_group("gcreate", res, TRUE)
          /\ UNCHANGED <<it, gstatus, gh>>
    \/ \E res \in GroupNames :
          /\ hist.n < MaxCalls
          /\ GroupsDelete(res)
          /\ hist' = after_group("gdelete", res, grp[res] # None)
          /\ UNCHANGED <<it, gstatus, gh>>

\* The history of a split create() at its return.
after_create_read(failAt) ==
    LET ok == ~read_raises(fs[req.res], req.attrs.get_content, TRUE, failAt)
    IN  [NoHistory EXCEPT
           !.op = "create", !.res = req.res, !.attrs = req.attrs, !.want_md5 = TRUE,
           !.outcome = IF ok THEN "ok" ELSE "error",
           !.ret = IF ok THEN status' ELSE EmptyState]

\* The monitor beside a create() that is split at its SystemModule calls.
NextPartial ==
    \/ \E res \in Monitored, attributes \in PlainAttributes, t \in Times :
          FilesCreateDeclare(res, attributes, t) /\ Forget
    \/ \E t \in Times : FilesCreateFile(t) /\ Forget
    \/ FilesUpdateMeta /\ Forget
    \/ \E t \in Times : FilesSetContent(t) /\ Forget
    \/ \E failAt \in ReadFaults :
          /\ FilesCreateRead(failAt)
          /\ hist' = after_create_read(failAt)
          /\ it' = IF mon.pc = "md5" THEN it ELSE NoIteration
          /\ UNCHANGED groupsVars
    \/ MonStart
    \/ \E failAt \in ReadFaults : MonRead(failAt)
    \/ \E fault \in BOOLEAN : MonDigest(fault)

SpecPartial == Init /\ [][NextPartial]_vars

SpecSeq == InitSeq /\ [][NextSeq]_vars

\* ------------------------------------------------ the groups controller
\* check_mandatory(res_id) raises MandatoryFieldMissing on an empty res_id.
check_mandatory_raises(res_id) == res_id = NoResId

\* files.py:18, 46, 85, 89: a Files call without res_id stops at
\* check_mandatory.
FilesNoResId(op) ==
    /\ check_mandatory_raises(NoResId)
    /\ gh' = [NoGroupHistory EXCEPT !.n = gh.n + 1, !.op = op, !.res = NoResId,
                                    !.outcome = "error", !.mandatory = TRUE]
    /\ UNCHANGED <<filesVars, grp, gbase, gstatus, it, hist>>

after_gread(res) ==
    [NoGroupHistory EXCEPT
       !.n = gh.n + 1, !.op = "read", !.res = res,
       !.existed = group_exists(grp, res), !.before = grp, !.touched = TRUE,
       !.outcome = IF infos_raises(grp, res) THEN "error" ELSE "ok",
       !.ret = IF infos_raises(grp, res) THEN NoFields ELSE get_group_infos(grp, res)]

after_gcreate(res, gid, fresh) ==
    [NoGroupHistory EXCEPT
       !.n = gh.n + 1, !.op = "create", !.res = res, !.gid = gid,
       !.existed = group_exists(grp, res), !.before = grp, !.touched = TRUE,
       !.mutated = grp' # grp,
       !.declared = group_declared(res, gid),
       !.outcome = create_outcome(grp, res),
       !.ret = create_result(grp, res, gid, fresh)]

\* twin: what create(res_id, attributes) does from the same state.
after_gupdate(res, new_name, gid, flag, fresh) ==
    [NoGroupHistory EXCEPT
       !.n = gh.n + 1, !.op = "update", !.res = res, !.new_name = new_name,
       !.gid = gid, !.monitor = flag,
       !.existed = group_exists(grp, res), !.before = grp, !.touched = TRUE,
       !.mutated = grp' # grp,
       !.declared = update_declared(new_name, gid),
       !.outcome = update_outcome(grp, res, new_name, gid),
       !.ret = IF update_outcome(grp, res, new_name, gid) = "ok"
               THEN gstatus' ELSE NoFields,
       !.twin = [grp |-> group_add(grp, res, gid, fresh),
                 gbase |-> comply(gbase, res, group_declared(res, gid), None),
                 outcome |-> create_outcome(grp, res),
                 ret |-> create_result(grp, res, gid, fresh)]]

after_gdelete(res) ==
    [NoGroupHistory EXCEPT
       !.n = gh.n + 1, !.op = "delete", !.res = res,
       !.existed = group_exists(grp, res), !.before = grp, !.touched = TRUE,
       !.mutated = grp' # grp,
       !.outcome = IF group_exists(grp, res) THEN "ok" ELSE "error"]

NextGroups ==
    \/ \E res \in GroupResIds :
          /\ gh.n < MaxCalls
          /\ GroupsRead(res)
          /\ gh' = after_gread(res)
          /\ UNCHANGED <<it, hist>>
    \/ \E res \in GroupResIds, gid \in {None} \cup {Some(g) : g \in Gids \cup NewGids},
          fresh \in Gids :
          /\ gh.n < MaxCalls
          /\ GroupsCreate(res, gid, fresh)
          /\ gh' = after_gcreate(res, gid, fresh)
          /\ UNCHANGED <<gstatus, it, hist>>
    \/ \E res \in GroupResIds, new_name \in {None} \cup {Some(g) : g \in SystemGroups},
          gid \in {None} \cup {Some(g) : g \in Gids \cup NewGids},
          flag \in {None, Some(TRUE)}, fresh \in Gids :
          /\ gh.n < MaxCalls
          /\ GroupsUpdate(res, new_name, gid, flag, fresh)
          /\ gh' = after_gupdate(res, new_name, gid, flag, fresh)
          /\ UNCHANGED <<it, hist>>
    \/ \E res \in GroupResIds :
          /\ gh.n < MaxCalls
          /\ GroupsDelete(res)
          /\ gh' = after_gdelete(res)
          /\ UNCHANGED <<gstatus, it, hist>>
    \/ \E op \in {"files_read", "files_create", "files_update", "files_delete"} :
          /\ gh.n < MaxCalls
          /\ FilesNoResId(op)

SpecGroups == Init /\ [][NextGroups]_vars

\* --------------------------------------------- GroupsController.monitor alone
\* The states handed to monitor(): mappings of some of MonitorKeys.
MonitorKeys == {"gid", "owner"}
MonitorVals == {PyNone, "10", "20"}
States == UNION {[K -> MonitorVals] : K \in SUBSET MonitorKeys}

GroupsMonitor(persisted_state, current_state) ==
    /\ gh' = [NoGroupHistory EXCEPT
                !.op = "monitor", !.persisted = persisted_state,
                !.current = current_state,
                !.compliant = monitor(persisted_state, current_state)]
    /\ UNCHANGED <<filesVars, grp, gbase, gstatus, it, hist>>

NextCompliance ==
    \E persisted_state \in States, current_state \in States :
        GroupsMonitor(persisted_state, current_state)

SpecCompliance == Init /\ [][NextCompliance]_vars

\* ------------------------------------------------------------------- claims
\* C1: a record whose live read raises is skipped: during its iteration
\* nothing is published and the baseline is not persisted.
C1_ReadErrorSkipsRecord == it.readFailed => (it.pub = 0 /\ ~it.persisted)

\* C2: a read or a digest that raises on one record never ends the pass
\* abnormally.
C2_FailureNeverAborts == (it.readFailed \/ it.md5Failed) => it.outcome # "aborted"

\* C3: between the monitor's read of a record and its digest of that record
\* no create/update/delete runs: while the monitor waits there, nothing is
\* declared and the live system stays as it is.
C3_ReadDigestAtomic ==
    [][(mon.pc = "md5" /\ mon' = mon) => (baseline' = baseline /\ fs' = fs)]_vars

\* C4: the monitor never recomputes the digest of a file whose create() has
\* declared the baseline and not yet written the content.
C4_NoPartialObservation == ~(it.md5Called /\ it.partial)

\* C5 as stated: presence matches, mod_time differs, the live digest equals
\* the baseline digest: the record is persisted and nothing is published.
C5_SelfHealAsStated ==
    (~it.readFailed /\ ~it.presDiff /\ it.md5Called /\ it.md5Equal)
        => (it.persisted /\ it.pub = 0)

\* C5 amended: the same, for a record whose owner, group and mode match
\* the live state as well; the persisted mod_time is the one of the live
\* state the monitor holds.
C5_SelfHeal ==
    (~it.readFailed /\ ~it.presDiff /\ ~it.attrDiff /\ it.md5Called /\ it.md5Equal)
        => /\ it.persisted
           /\ it.pub = 0
           /\ Val(baseline[it.rec]).status["mod_time"] = Response["mod_time"]

C5_Witness ==
    /\ ~it.readFailed /\ ~it.presDiff /\ ~it.attrDiff
    /\ it.md5Called /\ it.md5Equal /\ it.persisted

\* C6: a record whose present flag differs from the one its live read
\* returned is published exactly once, without digest and without persist,
\* and the loop moves on.
C6_PresenceDrift ==
    (it.presDiff /\ ~it.readFailed)
        => (it.pub = 1 /\ ~it.md5Called /\ ~it.persisted /\ it.outcome # "none")

C6_Witness == it.presDiff /\ ~it.readFailed /\ it.pub = 1

\* C7: delete() returns the snapshot read before the deletion request:
\* unchanged, with present = true, when the file is still there, and with
\* present = false when the path is gone.
C7_DeleteReturnsSnapshot ==
    (hist.op = "delete" /\ hist.outcome = "ok")
        => /\ is_file(fs[hist.res])
                => (hist.ret = hist.prev /\ hist.ret["present"] = Some(TRUE))
           /\ ~exists(fs[hist.res])
                => hist.ret = [hist.prev EXCEPT !["present"] = Some(FALSE)]

\* C8: after a delete of either kind the resource's baseline record has
\* present = false.
C8_DeleteDeclaresAbsent ==
    /\ hist.op = "delete"
         => /\ baseline[hist.res] # None
            /\ Val(baseline[hist.res]).status["present"] = Some(FALSE)
    /\ (hist.op = "gdelete" /\ hist.outcome = "ok")
         => /\ gbase[hist.res] # None
            /\ Val(gbase[hist.res]).status["present"] = Some(FALSE)

\* A read with get_content and md5 that follows a create() of the same path.
ReadAfterCreate ==
    /\ hist.op = "read" /\ hist.repeat
    /\ hist.attrs.get_content /\ hist.want_md5

CreatedAndRead ==
    /\ hist.ret["present"] = Some(TRUE)
    /\ hist.ret["content"] = Some(hist.attrs.content)
    /\ hist.ret["md5"] = Some(md5_str(hist.attrs.content))
    /\ Val(baseline[hist.res]).status["md5"] = Some(md5_str(hist.attrs.content))

\* C9 as stated: for every res_id, create with content c and then read
\* yields present = true, content c and the digest of c, which is also the
\* digest in the declared baseline.
C9_CreateThenReadAsStated == ReadAfterCreate => CreatedAndRead

\* C9 amended: the same for every res_id that is not a directory.
C9_CreateThenRead == (ReadAfterCreate /\ is_file(fs[hist.res])) => CreatedAndRead

C9_Witness == ReadAfterCreate /\ is_file(fs[hist.res]) /\ CreatedAndRead

\* C10: a create() repeated with the same res_id and attributes leaves the
\* live state and the declared baseline, timestamps apart, as the first left
\* them.
C10_CreateIdempotent ==
    (hist.op = "create" /\ hist.repeat)
        => /\ FileNoTimes(fs[hist.res]) = hist.file
           /\ NoTimes(Val(baseline[hist.res]).status) = hist.base

C10_Witness == hist.op = "create" /\ hist.repeat /\ exists(fs[hist.res])

\* C11: update() of a group that does not exist does what create() does
\* from the same state: the same groups, the same declared baseline, the
\* same outcome and the same returned state.
C11_UpdateMissingIsCreate ==
    (gh.op = "update" /\ ~gh.existed /\ gh.res # NoResId)
        => /\ grp = gh.twin.grp
           /\ gbase = gh.twin.gbase
           /\ gh.outcome = gh.twin.outcome
           /\ gh.ret = gh.twin.ret

\* Whether every key of the persisted state is in the current state with an
\* equal value.
EveryKeyHeld(persisted_state, current_state) ==
    \A key \in DOMAIN persisted_state :
        key \in DOMAIN current_state /\ current_state[key] = persisted_state[key]

\* The same, a key the current state lacks counting as one that holds None.
EveryKeyHeldOrNone(persisted_state, current_state) ==
    \A key \in DOMAIN persisted_state :
        \/ key \in DOMAIN current_state /\ current_state[key] = persisted_state[key]
        \/ key \notin DOMAIN current_state /\ persisted_state[key] = PyNone

\* C12 as stated: monitor() answers true exactly when every key of the
\* persisted state is in the current state with an equal value.
C12_CompliantAsStated ==
    gh.op = "monitor" => (gh.compliant <=> EveryKeyHeld(gh.persisted, gh.current))

\* C12 amended: a key the current state lacks compares as None; the call
\* leaves the controllers, the baselines and the system as they were.
C12_Compliant ==
    [][gh'.op = "monitor"
         => /\ gh'.compliant <=> EveryKeyHeldOrNone(gh'.persisted, gh'.current)
            /\ UNCHANGED <<filesVars, grp, gbase, gstatus>>]_vars

C12_Witness ==
    /\ gh.op = "monitor" /\ gh.compliant
    /\ DOMAIN gh.persisted = {"gid"} /\ gh.persisted["gid"] = "10"
    /\ DOMAIN gh.current = MonitorKeys /\ gh.current["gid"] = "10"

\* C13: a call without res_id ends with MandatoryFieldMissing before any
\* SystemModule call and before any declaration.
C13_ResIdMandatory ==
    (gh.op # "none" /\ gh.op # "monitor" /\ gh.res = NoResId)
        => (gh.mandatory /\ ~gh.touched /\ gbase[NoResId] = None)

\* C15: update() declares the name new_name when one is supplied and the
\* name res_id otherwise, never an empty one, with present = true and the
\* gid supplied; on an existing group the record carries the monitor flag.
C15_UpdateDeclares ==
    (gh.op = "update" /\ gh.res # NoResId)
        => /\ gh.declared["name"] =
                Some(IF gh.new_name # None THEN Val(gh.new_name) ELSE gh.res)
           /\ gh.declared["name"] \notin {None, Some(NoResId)}
           /\ gh.declared["present"] = Some(TRUE)
           /\ gh.declared["gid"] = gh.gid
           /\ gh.existed => /\ Val(gbase[gh.res]).status = gh.declared
                            /\ Val(gbase[gh.res]).monitor = gh.monitor

\* C16: update() of an existing group with new_name or gid changes the
\* group and returns its state read under the name it then has; with
\* neither it changes nothing and returns the state of res_id.
C16_UpdateReadsBack ==
    (gh.op = "update" /\ gh.existed)
        => IF gh.new_name # None \/ gh.gid # None
           THEN ~group_mod_raises(gh.before, gh.res, gh.new_name)
                  => /\ gh.outcome = "ok"
                     /\ gh.ret = get_group_infos(grp,
                                   IF gh.new_name # None THEN Val(gh.new_name)
                                   ELSE gh.res)
           ELSE /\ gh.outcome = "ok"
                /\ grp = gh.before
                /\ gh.ret = get_group_infos(grp, gh.res)

\* Whether a state is what a read of the path as it is yields.
LiveState(st, f) ==
    /\ st["present"] = Some(is_file(f))
    /\ is_file(f) => /\ st["owner"] = Some(f.owner)
                     /\ st["group"] = Some(f.group)
                     /\ st["mode"] = Some(f.mode)
                     /\ st["mod_time"] = Some(f.mod_time)
                     /\ st["md5"] = Some(md5(f))

\* C14: create() declares the baseline, with the digest of the content it
\* is about to write, before it touches the path; then it creates the file
\* if absent, applies the metadata, writes the content, and returns what the
\* final read of the path yields.
C14_CreateOrder ==
    [][/\ (req.pc = "idle" /\ req'.pc # "idle")
            => /\ req'.pc = "create_file"
               /\ fs' = fs
               /\ Val(baseline'[req'.res]).status["md5"]
                    = Some(md5_str(_get_content(req'.attrs)))
       /\ (req.pc = "create_file" /\ req' # req)
            => /\ req'.pc = "update_meta"
               /\ exists(fs'[req.res])
               /\ exists(fs[req.res]) => fs' = fs
       /\ (req.pc = "update_meta" /\ req' # req)
            => /\ req'.pc = "set_content"
               /\ fs'[req.res].owner = req.owner
               /\ fs'[req.res].group = req.group
               /\ fs'[req.res].mode = req.mode
       /\ (req.pc = "set_content" /\ req' # req)
            => /\ req'.pc = "read"
               /\ is_file(fs[req.res])
                    => fs'[req.res].content = _get_content(req.attrs)
       /\ (req.pc = "read" /\ req' # req)
            => /\ req'.pc = "idle"
               /\ fs' = fs
               /\ hist'.outcome = "ok" => LiveState(hist'.ret, fs[req.res])
       /\ fs' # fs => /\ req.pc \in {"create_file", "update_meta", "set_content"}
                      /\ baseline[req.res] # None]_vars

C14_Witness ==
    /\ hist.op = "create" /\ hist.outcome = "ok" /\ req.pc = "idle"
    /\ is_file(fs[hist.res])
    /\ hist.ret["mod_time"] # Val(baseline[hist.res]).status["mod_time"]

\* C17: the state a read returns is the state of a fresh mapping filled by
\* that read alone: nothing in it is left from an earlier call.
C17_ReadIsFresh ==
    (hist.op = "read" /\ hist.outcome = "ok")
        => hist.ret = read(EmptyState, fs[hist.res], hist.attrs.get_content,
                           hist.want_md5, "none")

C19_FailedResolution ==
    [][(/\ hist'.op = "create" /\ hist'.n = hist.n + 1
        /\ \/ hist'.attrs.mode = Some("9")
           \/ hist'.attrs.content_by_url = Some(BadUrl)
           \/ hist'.attrs.encoding = Some("base64") /\ hist'.attrs.content = Malformed)
         => (hist'.outcome = "invalid" /\ fs' = fs /\ baseline' = baseline)]_vars

C19_Witness ==
    /\ hist.op = "create" /\ hist.outcome = "invalid"
    /\ hist.attrs.encoding = Some("base64") /\ hist.n = 2
    /\ baseline[hist.res] # None

\* C20: a step of the monitor leaves the live system as it is, creates and
\* removes no baseline record and changes at most the mod_time of one; a
\* pass that finds no collection changes nothing.
C20_MonitorObserves ==
    [][/\ (mon' # mon \/ it'.outcome = "noop")
            => /\ fs' = fs
               /\ \A r \in ResIds :
                    /\ (baseline'[r] = None) <=> (baseline[r] = None)
                    /\ baseline[r] # None
                         => Val(baseline'[r]) =
                              [Val(baseline[r]) EXCEPT !.status["mod_time"] =
                                  Val(baseline'[r]).status["mod_time"]]
       /\ (it'.outcome = "noop" /\ it # it')
            => UNCHANGED <<fs, baseline, status, respIsStatus, req, mon>>]_vars

C20_Witness == it.persisted /\ it.attrDiff /\ it.pub = 1 /\ it.outcome = "done"

====
